---- MODULE Spec2Model ----
(***************************************************************************)
(* A model of bzt/modules/services.py: the helper services                 *)
(* AndroidEmulatorLoader and AppiumLoader (spawn, poll until ready or      *)
(* timeout, shutdown), the shared VirtualDisplay and the InstallChecker    *)
(* audit.  Each of the three parts has its own specification; the          *)
(* variables of the other parts stay at their initial values.              *)
(***************************************************************************)
EXTENDS Integers, Sequences, FiniteSets, TLC

VARIABLES
    \* ---- helper service (AndroidEmulatorLoader / AppiumLoader) ----
    kind,             \* which class the service object is: "emulator" | "appium"
    settings,         \* self.settings: [timeout, avd]
    startup_timeout,  \* self.startup_timeout: None or Some(number of ticks)
    helper_process,   \* self.emulator_process / self.appium_process: "None" | "running" | "dead"
    sinks,            \* self.stdout / self.stderr: "None" | "open" | "closed"
    files,            \* the two sink files on disk: [exists, size]
    pc,               \* position of the service: "new" | "prepared" | "probe" | "sleep" | "ready" | "failed"
    elapsed,          \* time.time() - start_time, in ticks
    exact,            \* every probe took no time and every sleep took exactly one interval
    lastProbe,        \* the last call of tool_is_started: [ret, env, out], what it
                      \* returned or raised, what it met, the output it read
    counts,           \* calls made so far: probes, sleeps, shutdowns, terminations, prunes
    outcome,          \* how the last call of startup()/shutdown() ended: [op, exc]
    \* ---- VirtualDisplay ----
    windows,          \* is_windows()
    SHARED_VIRTUAL_DISPLAY, \* the class attribute: 0 (None) or a display id
    virtual_display,  \* requester -> 0 (None) or a display id
    parameters,       \* requester -> [width, height], each None or Some(number)
    displays,         \* the Display objects created so far: sequence of [size, alive, by]
    acquires,         \* set_virtual_display calls so far
    acquirers,        \* the requesters that called set_virtual_display
    lastFree,         \* the last free_virtual_display call: [by, own, cleared]; by = 0 before any
    lastCheck,        \* the last check() call: [by, exc, ret]; by = 0 before any
    tpc,              \* requesters as threads: the statement each one is at
    seen,             \* requesters as threads: the slot as the release last read it
    \* ---- InstallChecker ----
    include_setting,  \* self.settings.get("include", [])
    exclude_setting,  \* self.settings.get("exclude", [])
    include_set,
    exclude_set,
    apc,              \* position of prepare(): "idle" | "loop" | "raised"
    idx,              \* index into modules of the next component
    checked,          \* components handed to _check_module, in order
    results,          \* what _check_module did for each, in order
    problems,         \* the list problems
    raised            \* the exception prepare() ended with, "none" before

hvars == <<kind, settings, startup_timeout, helper_process, sinks, files, pc,
           elapsed, exact, lastProbe, counts, outcome>>
dvars == <<windows, SHARED_VIRTUAL_DISPLAY, virtual_display, parameters,
           displays, acquires, acquirers, lastFree>>
avars == <<include_setting, exclude_setting, include_set, exclude_set, apc,
           idx, checked, results, problems, raised>>
cvars == <<lastCheck>>
tvars == <<tpc, seen>>
vars == <<hvars, dvars, avars, cvars, tvars>>

-----------------------------------------------------------------------------
(* Bounds of the model *)

TicksPerSec == 2       \* clock resolution: ticks in one second
MaxTimeoutTicks == 5   \* largest configured timeout, in ticks
MaxProbeTicks == 1     \* longest a probe call may take, in ticks
MaxJitter == 1         \* longest a sleep may overrun, in ticks
MaxBytes == 1          \* most bytes the process writes to one sink
MaxShutdowns == 3      \* most shutdown() calls on one service
NumRequesters == 2     \* VirtualDisplay objects asking for the display
MaxDisplays == 3       \* most Display objects created
MaxAcquires == 3       \* most set_virtual_display calls counted

(* Program constants *)

DefaultTimeout == 30   \* settings.get('timeout', 30)
PollInterval == 1      \* time.sleep(1)
DefaultWidth == 1024   \* parameters.get("width", 1024)
DefaultHeight == 768   \* parameters.get("height", 768)

Sinks == {"stdout", "stderr"}

(* An optional value: None, or Some(x) *)
None == <<>>
Some(x) == <<x>>
Get(o) == o[1]

(* Python's str.strip() on a string given as a sequence of characters *)
Whitespace == {" ", "\n"}

RECURSIVE LStrip(_)
LStrip(s) ==
    IF s # <<>> /\ Head(s) \in Whitespace THEN LStrip(Tail(s)) ELSE s

RECURSIVE RStrip(_)
RStrip(s) ==
    IF s # <<>> /\ s[Len(s)] \in Whitespace THEN RStrip(SubSeq(s, 1, Len(s) - 1)) ELSE s

Strip(s) == RStrip(LStrip(s))

(* The names bound at module level by the imports of services.py *)
ModuleGlobals ==
    {"copy", "json", "os", "subprocess", "time", "zipfile",
     "communicate", "text_type", "string_types",
     "NormalShutdown", "ToolError", "TaurusConfigError", "TaurusInternalException",
     "Service", "HavingInstallableTools", "Singletone", "ScenarioExecutor",
     "get_stacktrace",
     "get_full_path", "shutdown_process", "shell_exec", "RequiredTool", "is_windows",
     "replace_in_config", "JavaVM", "Node", "Environment", "Display"}

-----------------------------------------------------------------------------
(* Helper service *)

HelperInit ==
    /\ kind \in {"emulator", "appium"}
    /\ settings \in [timeout : {None} \cup {Some(t) : t \in 0..MaxTimeoutTicks}, avd : BOOLEAN]
    /\ (kind = "appium" => settings.avd)
    /\ startup_timeout = None
    /\ helper_process = "None"
    /\ sinks = [s \in Sinks |-> "None"]
    /\ files \in [Sinks -> {[exists |-> FALSE, size |-> 0], [exists |-> TRUE, size |-> 1]}]
    /\ pc = "new"
    /\ elapsed = 0
    /\ exact = TRUE
    /\ lastProbe = [ret |-> "none", env |-> "none", out |-> <<>>]
    /\ counts = [probes |-> 0, sleeps |-> 0, shutdowns |-> 0, terminations |-> 0,
                 prunes |-> [s \in Sinks |-> 0]]
    /\ outcome = [op |-> "none", exc |-> "none"]

(* prepare(): self.startup_timeout = self.settings.get('timeout', 30) *)
ConfiguredTimeout(st) ==
    IF st.timeout = None THEN Some(DefaultTimeout * TicksPerSec) ELSE st.timeout

AndroidEmulatorLoader_prepare ==
    /\ kind = "emulator"
    /\ pc = "new"
    /\ counts.shutdowns = 0
    /\ startup_timeout' = ConfiguredTimeout(settings)
    /\ pc' = "prepared"
    /\ UNCHANGED <<kind, settings, helper_process, sinks, files, elapsed, exact,
                   lastProbe, counts, outcome>>

AppiumLoader_prepare ==
    /\ kind = "appium"
    /\ pc = "new"
    /\ counts.shutdowns = 0
    /\ startup_timeout' = ConfiguredTimeout(settings)
    /\ pc' = "prepared"
    /\ UNCHANGED <<kind, settings, helper_process, sinks, files, elapsed, exact,
                   lastProbe, counts, outcome>>

(* open(path, 'ab'): the file is created if absent, its content kept *)
OpenAppend(f) == [f EXCEPT !.exists = TRUE]

(* startup() up to start_time = time.time(): the sinks are opened, then the
   process is spawned; shell_exec may fail to launch the executable *)
SpawnHelper(spawned) ==
    /\ sinks' = [s \in Sinks |-> "open"]
    /\ files' = [s \in Sinks |-> OpenAppend(files[s])]
    /\ IF spawned
         THEN /\ helper_process' = "running"
              /\ pc' = "probe"
              /\ outcome' = [op |-> "startup", exc |-> "pending"]
         ELSE /\ helper_process' = helper_process
              /\ pc' = "failed"
              /\ outcome' = [op |-> "startup", exc |-> "OSError"]
    /\ elapsed' = 0

AndroidEmulatorLoader_startup ==
    /\ kind = "emulator"
    /\ pc = "prepared"
    /\ counts.shutdowns = 0
    /\ IF ~settings.avd
         THEN \* self.settings.get('avd', exc) raises exc
              /\ outcome' = [op |-> "startup", exc |-> "TaurusConfigError"]
              /\ pc' = "failed"
              /\ UNCHANGED <<helper_process, sinks, files, elapsed>>
         ELSE \E spawned \in BOOLEAN : SpawnHelper(spawned)
    /\ UNCHANGED <<kind, settings, startup_timeout, exact, lastProbe, counts>>

AppiumLoader_startup ==
    /\ kind = "appium"
    /\ pc = "prepared"
    /\ counts.shutdowns = 0
    /\ \E spawned \in BOOLEAN : SpawnHelper(spawned)
    /\ UNCHANGED <<kind, settings, startup_timeout, exact, lastProbe, counts>>

(* Mutants of the loop test: one interval late; not strict *)
DeadlineOneIntervalLate(e, timeout) == e > Get(timeout) + PollInterval * TicksPerSec

DeadlineReached(e, timeout) == e >= Get(timeout)

(* The loop test of startup(): time.time() - start_time > self.startup_timeout *)
DeadlineExceeded(e, timeout) == e > Get(timeout)

(* What the diagnostic command of the emulator's probe can do: print some
   output, fail to execute, or be interrupted from the keyboard *)
AdbOutputs == {<<>>, <<"1">>, <<"1", "\n">>, <<"0">>, <<"\n">>}
AdbEvents ==
    {[ev |-> "output", out |-> o] : o \in AdbOutputs}
        \cup {[ev |-> "OSError", out |-> <<>>], [ev |-> "KeyboardInterrupt", out |-> <<>>]}

(* Mutant: the output is compared without being stripped *)
AndroidEmulatorLoader_tool_is_started_unstripped(e) ==
    IF e.ev = "output"
    THEN IF e.out = <<"1">> THEN "ready" ELSE "not_ready"
    ELSE "ToolError"

(* AndroidEmulatorLoader.tool_is_started: "ready", "not_ready" or the
   exception raised *)
AndroidEmulatorLoader_tool_is_started(e) ==
    IF e.ev = "output"
    THEN IF Strip(e.out) = <<"1">> THEN "ready" ELSE "not_ready"
    ELSE "ToolError"     \* except BaseException: raise ToolError

(* What the status request of the bridge's probe can do *)
HttpEvents == {"URLError", "malformed", "object", "array", "KeyboardInterrupt"}

(* AppiumLoader.tool_is_started: the names urlopen and URLError are looked up
   in the module's globals when the call and the except clause are evaluated *)
AppiumLoader_tool_is_started(e) ==
    IF "urlopen" \notin ModuleGlobals
    THEN "NameError"
    ELSE CASE e = "URLError" -> IF "URLError" \in ModuleGlobals THEN "not_ready" ELSE "NameError"
           [] e = "malformed" -> IF "URLError" \in ModuleGlobals THEN "not_ready" ELSE "NameError"
           [] e = "object" -> "ready"
           [] e = "array" -> "not_ready"
           [] OTHER -> e

(* Mutant: a loop that sleeps and tests the deadline before it looks at the
   probe's answer *)
ProbeStepSleepsFirst(ret, e, d) ==
    /\ lastProbe' = [ret |-> ret, env |-> e.ev, out |-> e.out]
    /\ counts' = [counts EXCEPT !.probes = @ + 1]
    /\ elapsed' = elapsed + d
    /\ exact' = (exact /\ d = 0)
    /\ IF ret \in {"ready", "not_ready"}
         THEN pc' = "sleep" /\ outcome' = outcome
         ELSE pc' = "failed" /\ outcome' = [op |-> "startup", exc |-> ret]
    /\ UNCHANGED <<kind, settings, startup_timeout, helper_process, sinks, files>>

(* One evaluation of the loop condition `while not self.tool_is_started()` *)
ProbeStep(ret, e, d) ==
    /\ lastProbe' = [ret |-> ret, env |-> e.ev, out |-> e.out]
    /\ counts' = [counts EXCEPT !.probes = @ + 1]
    /\ elapsed' = elapsed + d
    /\ exact' = (exact /\ d = 0)
    /\ IF ret = "ready"
         THEN pc' = "ready" /\ outcome' = [op |-> "startup", exc |-> "none"]
         ELSE IF ret = "not_ready"
         THEN pc' = "sleep" /\ outcome' = outcome
         ELSE pc' = "failed" /\ outcome' = [op |-> "startup", exc |-> ret]
    /\ UNCHANGED <<kind, settings, startup_timeout, helper_process, sinks, files>>

(* The events the probe of this service can meet *)
ProbeEvents ==
    IF kind = "emulator" THEN AdbEvents
    ELSE IF "urlopen" \in ModuleGlobals
    THEN {[ev |-> e, out |-> <<>>] : e \in HttpEvents}
    ELSE {[ev |-> "none", out |-> <<>>]}

tool_is_started(e) ==
    IF kind = "emulator"
    THEN AndroidEmulatorLoader_tool_is_started(e)
    ELSE AppiumLoader_tool_is_started(e.ev)

Startup_probe ==
    /\ pc = "probe"
    /\ \E e \in ProbeEvents, d \in 0..MaxProbeTicks :
          ProbeStep(tool_is_started(e), e, d)

(* The loop body: time.sleep(1), then the deadline test *)
SleepStep(j) ==
    /\ counts' = [counts EXCEPT !.sleeps = @ + 1]
    /\ elapsed' = elapsed + PollInterval * TicksPerSec + j
    /\ exact' = (exact /\ j = 0)
    /\ IF DeadlineExceeded(elapsed', startup_timeout)
         THEN pc' = "failed" /\ outcome' = [op |-> "startup", exc |-> "ToolError"]
         ELSE pc' = "probe" /\ outcome' = outcome
    /\ UNCHANGED <<kind, settings, startup_timeout, helper_process, sinks, files, lastProbe>>

(* KeyboardInterrupt delivered during time.sleep(1) *)
SleepInterrupted ==
    /\ pc' = "failed"
    /\ outcome' = [op |-> "startup", exc |-> "KeyboardInterrupt"]
    /\ UNCHANGED <<kind, settings, startup_timeout, helper_process, sinks, files,
                   lastProbe, counts, elapsed, exact>>

Startup_sleep ==
    /\ pc = "sleep"
    /\ \E j \in 0..MaxJitter : SleepStep(j)

Startup_sleep_interrupted ==
    /\ pc = "sleep"
    /\ SleepInterrupted

(* The spawned process writes a byte to one of its sinks *)
ProcessWrites ==
    /\ helper_process = "running"
    /\ \E s \in Sinks :
          /\ files[s].size < MaxBytes + 1
          /\ files[s].exists
          /\ files' = [files EXCEPT ![s].size = @ + 1]
    /\ UNCHANGED <<kind, settings, startup_timeout, helper_process, sinks, pc,
                   elapsed, exact, lastProbe, counts, outcome>>

(* The spawned process exits by itself *)
ProcessExits ==
    /\ helper_process = "running"
    /\ helper_process' = "dead"
    /\ UNCHANGED <<kind, settings, startup_timeout, sinks, files, pc,
                   elapsed, exact, lastProbe, counts, outcome>>

(* bzt.utils.shutdown_process: a process still running is signalled and
   waited for; one already gone is left alone *)
shutdown_process(p) == IF p = "running" THEN "dead" ELSE p

(* Mutant: the sink is left as it is *)
CloseSinkNever(s) == s

(* f.close() guarded by `if not f.closed` *)
CloseSink(s) == IF s = "open" THEN "closed" ELSE s

(* Mutant: the file is removed whatever its size *)
PruneAlways(f) == [f EXCEPT !.exists = FALSE]

(* `if not os.stat(_file).st_size: os.remove(_file)`: the file afterwards *)
Prune(f) == IF f.size = 0 THEN [f EXCEPT !.exists = FALSE] ELSE f

(* shutdown(), the same statements in both classes.  The call ends at the
   first statement that raises: self.stdout.closed on None is an
   AttributeError, os.stat of a missing file an OSError. *)
ShutdownBody ==
    LET term == helper_process # "None"
        p1 == IF term THEN shutdown_process(helper_process) ELSE helper_process
        killed == IF helper_process = "running" /\ p1 = "dead" THEN 1 ELSE 0
        c1 == [counts EXCEPT !.shutdowns = @ + 1, !.terminations = @ + killed]
    IN
    /\ helper_process' = p1
    /\ IF sinks["stdout"] = "None"
         THEN /\ outcome' = [op |-> "shutdown", exc |-> "AttributeError"]
              /\ counts' = c1
              /\ UNCHANGED <<sinks, files>>
         ELSE IF sinks["stderr"] = "None"
         THEN /\ outcome' = [op |-> "shutdown", exc |-> "AttributeError"]
              /\ counts' = c1
              /\ sinks' = [sinks EXCEPT !["stdout"] = CloseSink(@)]
              /\ UNCHANGED files
         ELSE /\ sinks' = [s \in Sinks |-> CloseSink(sinks[s])]
              /\ IF ~files["stdout"].exists
                   THEN /\ outcome' = [op |-> "shutdown", exc |-> "OSError"]
                        /\ counts' = c1
                        /\ UNCHANGED files
                   ELSE LET f1 == [files EXCEPT !["stdout"] = Prune(@)]
                            c2 == IF f1["stdout"].exists THEN c1
                                  ELSE [c1 EXCEPT !.prunes["stdout"] = @ + 1]
                        IN IF ~f1["stderr"].exists
                           THEN /\ outcome' = [op |-> "shutdown", exc |-> "OSError"]
                                /\ counts' = c2
                                /\ files' = f1
                           ELSE LET f2 == [f1 EXCEPT !["stderr"] = Prune(@)]
                                IN /\ outcome' = [op |-> "shutdown", exc |-> "none"]
                                   /\ files' = f2
                                   /\ counts' = IF f2["stderr"].exists THEN c2
                                                ELSE [c2 EXCEPT !.prunes["stderr"] = @ + 1]
    /\ UNCHANGED <<kind, settings, startup_timeout, pc, elapsed, exact, lastProbe>>

AndroidEmulatorLoader_shutdown ==
    /\ kind = "emulator"
    /\ pc \in {"new", "prepared", "ready", "failed"}
    /\ counts.shutdowns < MaxShutdowns
    /\ ShutdownBody

AppiumLoader_shutdown ==
    /\ kind = "appium"
    /\ pc \in {"new", "prepared", "ready", "failed"}
    /\ counts.shutdowns < MaxShutdowns
    /\ ShutdownBody

HelperNext ==
    \/ AndroidEmulatorLoader_prepare /\ UNCHANGED <<dvars, avars, cvars, tvars>>
    \/ AppiumLoader_prepare /\ UNCHANGED <<dvars, avars, cvars, tvars>>
    \/ AndroidEmulatorLoader_startup /\ UNCHANGED <<dvars, avars, cvars, tvars>>
    \/ AppiumLoader_startup /\ UNCHANGED <<dvars, avars, cvars, tvars>>
    \/ Startup_probe /\ UNCHANGED <<dvars, avars, cvars, tvars>>
    \/ Startup_sleep /\ UNCHANGED <<dvars, avars, cvars, tvars>>
    \/ Startup_sleep_interrupted /\ UNCHANGED <<dvars, avars, cvars, tvars>>
    \/ ProcessWrites /\ UNCHANGED <<dvars, avars, cvars, tvars>>
    \/ ProcessExits /\ UNCHANGED <<dvars, avars, cvars, tvars>>
    \/ AndroidEmulatorLoader_shutdown /\ UNCHANGED <<dvars, avars, cvars, tvars>>
    \/ AppiumLoader_shutdown /\ UNCHANGED <<dvars, avars, cvars, tvars>>

-----------------------------------------------------------------------------
(* VirtualDisplay *)

Requesters == 1..NumRequesters

DisplayInit ==
    /\ windows \in BOOLEAN
    /\ SHARED_VIRTUAL_DISPLAY = 0
    /\ virtual_display = [r \in Requesters |-> 0]
    /\ parameters \in [Requesters -> [width : {None, Some(800)}, height : {None, Some(600)}]]
    /\ displays = <<>>
    /\ acquires = 0
    /\ acquirers = {}
    /\ lastFree = [by |-> 0, own |-> FALSE, cleared |-> FALSE]
    /\ lastCheck = [by |-> 0, exc |-> "none", ret |-> "none"]
    /\ tpc = [r \in Requesters |-> "idle"]
    /\ seen = [r \in Requesters |-> 0]

(* width = parameters.get("width", 1024); height = parameters.get("height", 768) *)
RequestedSize(par) ==
    <<IF par.width = None THEN DefaultWidth ELSE Get(par.width),
      IF par.height = None THEN DefaultHeight ELSE Get(par.height)>>

(* Mutant: the shared slot is never found set *)
NeverPublished(shared) == FALSE

(* Truth value of VirtualDisplay.SHARED_VIRTUAL_DISPLAY: None is false, a Display true *)
Published(shared) == shared # 0

(* Display(size=(width, height)) followed by start() *)
NewDisplay(r) == [size |-> RequestedSize(parameters[r]), alive |-> TRUE, by |-> r]

set_virtual_display(r) ==
    /\ acquires < MaxAcquires
    /\ acquires' = acquires + 1
    /\ acquirers' = acquirers \cup {r}
    /\ IF windows
         THEN UNCHANGED <<SHARED_VIRTUAL_DISPLAY, virtual_display, displays>>
         ELSE IF Published(SHARED_VIRTUAL_DISPLAY)
         THEN /\ virtual_display' = [virtual_display EXCEPT ![r] = SHARED_VIRTUAL_DISPLAY]
              /\ UNCHANGED <<SHARED_VIRTUAL_DISPLAY, displays>>
         ELSE /\ Len(displays) < MaxDisplays
              /\ displays' = Append(displays, NewDisplay(r))
              /\ virtual_display' = [virtual_display EXCEPT ![r] = Len(displays) + 1]
              /\ SHARED_VIRTUAL_DISPLAY' = Len(displays) + 1
    /\ UNCHANGED <<windows, parameters, lastFree>>

(* The slot after free_virtual_display by a requester whose view is `own` *)
SlotAfterFree(shared, own) == IF Published(shared) THEN 0 ELSE shared

free_virtual_display(r) ==
    LET own == virtual_display[r] IN
    /\ displays' = IF own # 0 /\ displays[own].alive
                    THEN [displays EXCEPT ![own].alive = FALSE]
                    ELSE displays
    /\ SHARED_VIRTUAL_DISPLAY' = SlotAfterFree(SHARED_VIRTUAL_DISPLAY, own)
    /\ lastFree' = [by |-> r,
                    own |-> (own # 0 /\ own = SHARED_VIRTUAL_DISPLAY),
                    cleared |-> (SHARED_VIRTUAL_DISPLAY # 0 /\ SHARED_VIRTUAL_DISPLAY' = 0)]
    /\ UNCHANGED <<windows, virtual_display, parameters, acquires, acquirers>>

(* The display server of a started display dies by itself *)
DisplayDies ==
    \E d \in 1..Len(displays) :
        /\ displays[d].alive
        /\ displays' = [displays EXCEPT ![d].alive = FALSE]
        /\ UNCHANGED <<windows, SHARED_VIRTUAL_DISPLAY, virtual_display, parameters,
                       acquires, acquirers, lastFree>>

(* Mutant: the liveness of the held display is not looked at *)
check_virtual_display_any_held(r) ==
    IF virtual_display[r] # 0 THEN "TaurusInternalException" ELSE "none"

(* check_virtual_display: the exception it raises, "none" when it returns *)
check_virtual_display(r) ==
    IF virtual_display[r] # 0
    THEN IF ~displays[virtual_display[r]].alive
         THEN "TaurusInternalException"
         ELSE "none"
    ELSE "none"

(* check(): check_virtual_display(), then return False *)
check(r) ==
    LET exc == check_virtual_display(r) IN
    /\ lastCheck' = [by |-> r, exc |-> exc,
                     ret |-> IF exc = "none" THEN "False" ELSE "none"]
    /\ UNCHANGED dvars

VirtualDisplay_check == \E r \in Requesters : check(r)

VirtualDisplay_startup == \E r \in Requesters : set_virtual_display(r)

VirtualDisplay_shutdown == \E r \in Requesters : free_virtual_display(r)

DisplayNext ==
    \/ VirtualDisplay_startup /\ UNCHANGED <<hvars, avars, cvars, tvars>>
    \/ VirtualDisplay_shutdown /\ UNCHANGED <<hvars, avars, cvars, tvars>>
    \/ DisplayDies /\ UNCHANGED <<hvars, avars, cvars, tvars>>

(* set_virtual_display and free_virtual_display called from threads: no
   lock is taken, so the calls of different requesters interleave between
   the statements that read and write the shared slot. *)

(* `if VirtualDisplay.SHARED_VIRTUAL_DISPLAY:` and the reuse branch *)
set_virtual_display_test(r) ==
    /\ tpc[r] = "idle"
    /\ acquires < MaxAcquires
    /\ acquires' = acquires + 1
    /\ IF Published(SHARED_VIRTUAL_DISPLAY)
         THEN /\ virtual_display' = [virtual_display EXCEPT ![r] = SHARED_VIRTUAL_DISPLAY]
              /\ tpc' = tpc
         ELSE /\ virtual_display' = virtual_display
              /\ tpc' = [tpc EXCEPT ![r] = "create"]
    /\ UNCHANGED <<windows, SHARED_VIRTUAL_DISPLAY, parameters, displays, acquirers,
                   lastFree, seen>>

(* self.virtual_display = Display(size=...); self.virtual_display.start() *)
set_virtual_display_create(r) ==
    /\ tpc[r] = "create"
    /\ Len(displays) < MaxDisplays
    /\ displays' = Append(displays, NewDisplay(r))
    /\ virtual_display' = [virtual_display EXCEPT ![r] = Len(displays) + 1]
    /\ tpc' = [tpc EXCEPT ![r] = "publish"]
    /\ UNCHANGED <<windows, SHARED_VIRTUAL_DISPLAY, parameters, acquires, acquirers,
                   lastFree, seen>>

(* VirtualDisplay.SHARED_VIRTUAL_DISPLAY = self.virtual_display *)
set_virtual_display_publish(r) ==
    /\ tpc[r] = "publish"
    /\ SHARED_VIRTUAL_DISPLAY' = virtual_display[r]
    /\ acquirers' = acquirers \cup {r}
    /\ tpc' = [tpc EXCEPT ![r] = "idle"]
    /\ UNCHANGED <<windows, virtual_display, parameters, displays, acquires,
                   lastFree, seen>>

(* `if self.virtual_display and self.virtual_display.is_alive(): stop()` *)
free_virtual_display_stop(r) ==
    LET own == virtual_display[r] IN
    /\ tpc[r] = "idle"
    /\ displays' = IF own # 0 /\ displays[own].alive
                    THEN [displays EXCEPT ![own].alive = FALSE]
                    ELSE displays
    /\ lastFree' = [by |-> r,
                    own |-> (own # 0 /\ own = SHARED_VIRTUAL_DISPLAY),
                    cleared |-> FALSE]
    /\ tpc' = [tpc EXCEPT ![r] = "test"]
    /\ UNCHANGED <<windows, SHARED_VIRTUAL_DISPLAY, virtual_display, parameters,
                   acquires, acquirers, seen>>

(* `if VirtualDisplay.SHARED_VIRTUAL_DISPLAY:` of the release *)
free_virtual_display_test(r) ==
    /\ tpc[r] = "test"
    /\ seen' = [seen EXCEPT ![r] = SHARED_VIRTUAL_DISPLAY]
    /\ tpc' = [tpc EXCEPT ![r] = IF Published(SHARED_VIRTUAL_DISPLAY) THEN "clear" ELSE "idle"]
    /\ UNCHANGED <<windows, SHARED_VIRTUAL_DISPLAY, virtual_display, parameters,
                   displays, acquires, acquirers, lastFree>>

(* VirtualDisplay.SHARED_VIRTUAL_DISPLAY = None *)
free_virtual_display_clear(r) ==
    /\ tpc[r] = "clear"
    /\ SHARED_VIRTUAL_DISPLAY' = 0
    /\ lastFree' = [lastFree EXCEPT !.by = r, !.cleared = TRUE]
    /\ tpc' = [tpc EXCEPT ![r] = "idle"]
    /\ UNCHANGED <<windows, virtual_display, parameters, displays, acquires,
                   acquirers, seen>>

Thread_set_test == \E r \in Requesters : set_virtual_display_test(r)
Thread_set_create == \E r \in Requesters : set_virtual_display_create(r)
Thread_set_publish == \E r \in Requesters : set_virtual_display_publish(r)
Thread_free_stop == \E r \in Requesters : free_virtual_display_stop(r)
Thread_free_test == \E r \in Requesters : free_virtual_display_test(r)
Thread_free_clear == \E r \in Requesters : free_virtual_display_clear(r)

DisplayThreadsNext ==
    \/ Thread_set_test /\ UNCHANGED <<hvars, avars, cvars>>
    \/ Thread_set_create /\ UNCHANGED <<hvars, avars, cvars>>
    \/ Thread_set_publish /\ UNCHANGED <<hvars, avars, cvars>>
    \/ Thread_free_stop /\ UNCHANGED <<hvars, avars, cvars>>
    \/ Thread_free_test /\ UNCHANGED <<hvars, avars, cvars>>
    \/ Thread_free_clear /\ UNCHANGED <<hvars, avars, cvars>>

(* The display with the periodic check() of its requesters *)
DisplayCheckNext ==
    \/ VirtualDisplay_startup /\ UNCHANGED <<hvars, avars, cvars, tvars>>
    \/ VirtualDisplay_shutdown /\ UNCHANGED <<hvars, avars, cvars, tvars>>
    \/ DisplayDies /\ UNCHANGED <<hvars, avars, cvars, tvars>>
    \/ VirtualDisplay_check /\ UNCHANGED <<hvars, avars, tvars>>

-----------------------------------------------------------------------------
(* InstallChecker *)

(* A name is a Python string: a sequence of characters *)
Name(c) == <<c>>

(* engine.config.get("modules"): the configured components, in the order
   the mapping yields them *)
modules == <<Name("a"), Name("b"), Name("c")>>

Range(q) == {q[i] : i \in 1..Len(q)}

(* Python's s.split(","): the list of the pieces between the commas *)
RECURSIVE SplitFrom(_, _, _)
SplitFrom(s, i, piece) ==
    IF i > Len(s) THEN <<piece>>
    ELSE IF s[i] = "," THEN <<piece>> \o SplitFrom(s, i + 1, <<>>)
    ELSE SplitFrom(s, i + 1, Append(piece, s[i]))

Split(s) == SplitFrom(s, 1, <<>>)

(* A filter setting: a string, a list of names, a dict keyed by names, or
   any other value *)
StrValue(chars) == [type |-> "str", str |-> chars, items |-> <<>>]
ListValue(names) == [type |-> "list", str |-> <<>>, items |-> names]
DictValue(keys) == [type |-> "dict", str |-> <<>>, items |-> keys]
OtherValue == [type |-> "other", str |-> <<>>, items |-> <<>>]

_parse_module_filter(filter_value) ==
    IF filter_value.type = "str"
    THEN Range(Split(Strip(filter_value.str)))
    ELSE IF filter_value.type \in {"list", "dict"}
    THEN Range(filter_value.items)
    ELSE {}

(* The filter settings tried *)
FilterStrings ==
    {<<>>, <<" ">>, <<"a">>, <<"c">>, <<"a", ",", "b">>, <<"a", ",", " ", "b">>,
     <<" ", "b", " ">>, <<"b", ",", "c">>, <<"a", ",">>}
FilterLists ==
    {<<>>, <<Name("a")>>, <<Name("b")>>, <<Name("c")>>, <<Name("a"), Name("b")>>,
     <<Name("a"), Name("c")>>, <<Name("c"), Name("b")>>,
     <<Name("a"), Name("b"), Name("c")>>, <<Name("b"), Name("b")>>}
FilterDicts == {<<>>, <<Name("b")>>, <<Name("a"), Name("b")>>}
FilterValues ==
    {StrValue(x) : x \in FilterStrings} \cup {ListValue(x) : x \in FilterLists}
        \cup {DictValue(x) : x \in FilterDicts} \cup {OtherValue}

AuditInit ==
    /\ include_setting \in FilterValues
    /\ exclude_setting \in FilterValues
    /\ include_set = {}
    /\ exclude_set = {}
    /\ apc = "idle"
    /\ idx = 1
    /\ checked = <<>>
    /\ results = <<>>
    /\ problems = <<>>
    /\ raised = [exc |-> "none", names |-> <<>>]

(* Mutant: the exclude filter is applied only when there is no include filter *)
SelectedExcludeWithoutInclude(mod_name, inc, exc) ==
    /\ ~(inc # {} /\ mod_name \notin inc)
    /\ ~(inc = {} /\ mod_name \in exc)

(* The two `continue` tests of the loop, negated: the component is checked *)
Selected(mod_name, inc, exc) ==
    /\ ~(inc # {} /\ mod_name \notin inc)
    /\ ~(exc # {} /\ mod_name \in exc)

(* What _check_module(mod_name) can meet *)
CheckEvents ==
    {"instantiate_fails", "no_install_needs", "install_fails", "fine", "KeyboardInterrupt"}

(* _check_module: "returned" or the exception that leaves it *)
_check_module(ev) ==
    CASE ev = "instantiate_fails" -> "Exception"
      [] ev = "no_install_needs" -> "returned"
      [] ev = "install_fails" -> "Exception"
      [] ev = "fine" -> "returned"
      [] ev = "KeyboardInterrupt" -> "KeyboardInterrupt"

(* Mutant: only the first failing component is recorded *)
ProblemsKeepFirst(probs, mod_name, r) ==
    IF r = "returned" \/ probs # <<>> THEN probs ELSE Append(probs, mod_name)

(* Mutant: the clean stop is raised whatever was recorded *)
FinalRaiseAlwaysClean(probs) == [exc |-> "NormalShutdown", names |-> <<>>]

(* The except clause of the loop: problems.append(mod_name) on a failure *)
ProblemsAfter(probs, mod_name, r) ==
    IF r = "returned" THEN probs ELSE Append(probs, mod_name)

(* The two raise statements after the loop *)
FinalRaise(probs) ==
    IF probs # <<>>
    THEN [exc |-> "ToolError", names |-> probs]
    ELSE [exc |-> "NormalShutdown", names |-> <<>>]

(* prepare() up to the loop: the two filters are parsed *)
InstallChecker_prepare ==
    /\ apc = "idle"
    /\ include_set' = _parse_module_filter(include_setting)
    /\ exclude_set' = _parse_module_filter(exclude_setting)
    /\ apc' = "loop"
    /\ UNCHANGED <<include_setting, exclude_setting, idx, checked, results, problems, raised>>

(* One iteration of `for mod_name in modules` *)
InstallChecker_prepare_loop ==
    /\ apc = "loop"
    /\ idx <= Len(modules)
    /\ idx' = idx + 1
    /\ IF ~Selected(modules[idx], include_set, exclude_set)
         THEN UNCHANGED <<checked, results, problems, raised, apc>>
         ELSE \E ev \in CheckEvents :
                LET r == _check_module(ev) IN
                /\ checked' = Append(checked, modules[idx])
                /\ results' = Append(results, ev)
                /\ IF r = "KeyboardInterrupt"
                     THEN /\ raised' = [exc |-> "KeyboardInterrupt", names |-> <<>>]
                          /\ apc' = "raised"
                          /\ UNCHANGED problems
                     ELSE /\ problems' = ProblemsAfter(problems, modules[idx], r)
                          /\ UNCHANGED <<raised, apc>>
    /\ UNCHANGED <<include_setting, exclude_setting, include_set, exclude_set>>

(* The statements after the loop *)
InstallChecker_prepare_end ==
    /\ apc = "loop"
    /\ idx > Len(modules)
    /\ raised' = FinalRaise(problems)
    /\ apc' = "raised"
    /\ UNCHANGED <<include_setting, exclude_setting, include_set, exclude_set,
                   idx, checked, results, problems>>

AuditNext ==
    \/ InstallChecker_prepare /\ UNCHANGED <<hvars, dvars, cvars, tvars>>
    \/ InstallChecker_prepare_loop /\ UNCHANGED <<hvars, dvars, cvars, tvars>>
    \/ InstallChecker_prepare_end /\ UNCHANGED <<hvars, dvars, cvars, tvars>>

-----------------------------------------------------------------------------
(* The three specifications *)

(* The parts not under study stay as constructed *)
HelperIdle ==
    /\ kind = "emulator"
    /\ settings = [timeout |-> None, avd |-> TRUE]
    /\ files = [s \in Sinks |-> [exists |-> FALSE, size |-> 0]]
    /\ HelperInit

DisplayIdle ==
    /\ windows = FALSE
    /\ parameters = [r \in Requesters |-> [width |-> None, height |-> None]]
    /\ DisplayInit

AuditIdle ==
    /\ include_setting = ListValue(<<>>)
    /\ exclude_setting = ListValue(<<>>)
    /\ AuditInit

HelperSpecInit == HelperInit /\ DisplayIdle /\ AuditIdle

DisplaySpecInit == HelperIdle /\ DisplayInit /\ AuditIdle

AuditSpecInit == HelperIdle /\ DisplayIdle /\ AuditInit

SpecHelper == HelperSpecInit /\ [][HelperNext]_vars

SpecDisplay == DisplaySpecInit /\ [][DisplayNext]_vars

SpecAudit == AuditSpecInit /\ [][AuditNext]_vars

DisplayCheckInit ==
    /\ parameters = [r \in Requesters |-> [width |-> None, height |-> None]]
    /\ DisplaySpecInit

SpecDisplayCheck == DisplayCheckInit /\ [][DisplayCheckNext]_vars

DisplayThreadsInit ==
    /\ windows = FALSE
    /\ DisplayCheckInit

SpecDisplayThreads == DisplayThreadsInit /\ [][DisplayThreadsNext]_vars

-----------------------------------------------------------------------------
(* Claims about the helper services *)

SinksOpened == sinks["stdout"] # "None"

(* C1: for a helper whose startup() has run, a second shutdown() in
   succession completes without raising and leaves the state of the first:
   process terminated and its handle cleared, both sinks closed, each empty
   sink file pruned once, no second termination. *)
C1_ShutdownTwiceIdempotent ==
    (SinksOpened /\ outcome.op = "shutdown" /\ counts.shutdowns >= 2) =>
        /\ outcome.exc = "none"
        /\ helper_process = "None"
        /\ \A s \in Sinks : sinks[s] = "closed" /\ counts.prunes[s] <= 1
        /\ counts.terminations <= 1

(* C2: shutdown() on a service whose sinks were never opened (fresh, only
   prepared, or after a startup() that failed on the missing avd setting)
   returns without raising and terminates, closes and prunes nothing. *)
C2_ShutdownSafeBeforeStartup ==
    (~SinksOpened /\ outcome.op = "shutdown") =>
        /\ outcome.exc = "none"
        /\ counts.terminations = 0
        /\ \A s \in Sinks : counts.prunes[s] = 0

TimedOut ==
    /\ pc = "failed"
    /\ outcome = [op |-> "startup", exc |-> "ToolError"]
    /\ lastProbe.ret = "not_ready"

Interval == PollInterval * TicksPerSec

(* C4: startup() becomes Ready only by a probe call that returned ready; a
   sleep after which the deadline is exceeded ends startup() in ToolError,
   and a failed startup never becomes Ready. *)
C4_ReadyOnlyByProbe ==
    [][ /\ (pc' = "ready" /\ pc # "ready") =>
              (pc = "probe" /\ lastProbe'.ret = "ready"
               /\ counts'.probes = counts.probes + 1
               /\ outcome' = [op |-> "startup", exc |-> "none"])
        /\ (counts'.sleeps # counts.sleeps /\ elapsed' > Get(startup_timeout)) =>
              (pc' = "failed" /\ outcome' = [op |-> "startup", exc |-> "ToolError"])
        /\ (pc = "failed" => pc' = "failed")
        /\ (pc = "ready" => lastProbe.ret = "ready") ]_vars

C4_Witness ==
    /\ pc = "ready"
    /\ counts.sleeps >= 2
    /\ counts.probes = counts.sleeps + 1

(* C5 as stated: with a probe that never reports ready, taking no time, and
   sleeps of exactly one interval, the loop fails with the timeout error at
   an elapsed time E with T <= E < T + one interval. *)
C5_TimeoutWithinOneInterval ==
    (TimedOut /\ exact) =>
        (Get(startup_timeout) <= elapsed /\ elapsed < Get(startup_timeout) + Interval)

(* C5 amended: under the same conditions T < E <= T + one interval, and the
   loop sleeps at most floor(T / interval) + 1 times. *)
C5_TimeoutAfterDeadline ==
    /\ (TimedOut /\ exact) =>
          (Get(startup_timeout) < elapsed /\ elapsed <= Get(startup_timeout) + Interval)
    /\ (TimedOut => Get(startup_timeout) < elapsed)
    /\ (pc \in {"probe", "sleep", "ready", "failed"} /\ startup_timeout # None) =>
          counts.sleeps <= (Get(startup_timeout) \div Interval) + 1

C5_Witness ==
    /\ TimedOut
    /\ exact
    /\ Get(startup_timeout) = Interval + 1
    /\ elapsed = 2 * Interval

-----------------------------------------------------------------------------
(* Claims about the VirtualDisplay *)

Live == {d \in 1..Len(displays) : displays[d].alive}

(* C3: at most one started and not stopped display exists, and a live
   display is the one published in SHARED_VIRTUAL_DISPLAY. *)
C3_AtMostOneLiveDisplay ==
    /\ Cardinality(Live) <= 1
    /\ \A d \in Live : SHARED_VIRTUAL_DISPLAY = d

NoReleaseYet == lastFree.by = 0

OneSharedDisplay ==
    /\ Len(displays) = 1
    /\ SHARED_VIRTUAL_DISPLAY = 1
    /\ \A r \in acquirers : virtual_display[r] = 1
    /\ displays[1].size = RequestedSize(parameters[displays[1].by])

(* C9 as stated: N >= 1 calls of set_virtual_display before any
   free_virtual_display create exactly one display, which every caller
   holds and whose size is the one its creator asked for. *)
C9_OneDisplayForAllAcquirers ==
    (acquires >= 1 /\ NoReleaseYet) => OneSharedDisplay

(* C9 amended: the same on a platform other than Windows; on Windows the
   calls create no display and no requester holds one. *)
C9_OneDisplayUnlessWindows ==
    (acquires >= 1 /\ NoReleaseYet) =>
        IF windows
        THEN displays = <<>> /\ SHARED_VIRTUAL_DISPLAY = 0
             /\ \A r \in Requesters : virtual_display[r] = 0
        ELSE OneSharedDisplay

C9_Witness ==
    /\ ~windows
    /\ acquires = MaxAcquires
    /\ NoReleaseYet
    /\ acquirers = Requesters
    /\ \E r \in acquirers :
          RequestedSize(parameters[r]) # displays[virtual_display[r]].size

(* C10: free_virtual_display clears SHARED_VIRTUAL_DISPLAY only when the
   caller's own virtual_display is the published instance. *)
C10_ClearOnlyOwnDisplay ==
    lastFree.cleared => lastFree.own

(* C12: a shutdown() of a helper whose sinks were opened leaves each sink
   file absent exactly when it had zero length at the time it was closed; a
   file with content is kept and its content is unchanged. *)
C12_EmptySinkFilesPruned ==
    [][(counts'.shutdowns # counts.shutdowns /\ SinksOpened) =>
          \A s \in Sinks :
              /\ files'[s].exists = (files[s].exists /\ files[s].size > 0)
              /\ (files[s].size > 0 => files'[s] = files[s])]_vars

C12_Witness ==
    /\ pc = "ready"
    /\ counts.shutdowns = 1
    /\ outcome = [op |-> "shutdown", exc |-> "none"]
    /\ ~files["stdout"].exists
    /\ counts.prunes["stdout"] = 1
    /\ files["stderr"].exists
    /\ files["stderr"].size > 0

(* The output is the single character 1 with only whitespace around it *)
IsOneWhenTrimmed(o) ==
    \E i \in 1..Len(o) :
        /\ o[i] = "1"
        /\ \A j \in (1..Len(o)) \ {i} : o[j] \in Whitespace

(* C13: the emulator's probe reports ready exactly when the diagnostic's
   output, trimmed, is "1"; with an empty or other output it reports not
   ready and the loop goes on to its sleep; when the diagnostic cannot be
   executed startup() fails at once with ToolError, and a failed startup()
   makes no further probe. *)
C13_EmulatorProbe ==
    [][/\ (kind = "emulator" /\ counts'.probes # counts.probes) =>
            /\ lastProbe'.env = "output" =>
                  /\ lastProbe'.ret \in {"ready", "not_ready"}
                  /\ (lastProbe'.ret = "ready") = IsOneWhenTrimmed(lastProbe'.out)
            /\ lastProbe'.ret = "ready" => pc' = "ready"
            /\ lastProbe'.ret = "not_ready" => pc' = "sleep"
            /\ lastProbe'.env = "OSError" =>
                  /\ lastProbe'.ret = "ToolError"
                  /\ pc' = "failed"
                  /\ outcome' = [op |-> "startup", exc |-> "ToolError"]
       /\ pc = "failed" => counts'.probes = counts.probes]_vars

C13_Witness ==
    /\ kind = "emulator"
    /\ pc = "ready"
    /\ counts.probes = 2
    /\ counts.sleeps = 1
    /\ lastProbe.ret = "ready"
    /\ lastProbe.out = <<"1", "\n">>

(* C14: the bridge's probe never raises: each call of it reports ready or
   not ready, and a call that reports not ready is followed by the sleep of
   the polling loop. *)
C14_BridgeProbeNeverRaises ==
    (kind = "appium" /\ counts.probes >= 1) =>
        lastProbe.ret \in {"ready", "not_ready"}

(* C15: a KeyboardInterrupt met by the probe or by the sleep of the polling
   loop leaves startup() as a KeyboardInterrupt, the startup has failed and
   nothing else is raised in its place. *)
C15_CancellationPropagates ==
    [][/\ (counts'.probes # counts.probes /\ lastProbe'.env = "KeyboardInterrupt") =>
            /\ pc' = "failed"
            /\ outcome' = [op |-> "startup", exc |-> "KeyboardInterrupt"]
       /\ (pc = "sleep" /\ pc' = "failed" /\ counts'.sleeps = counts.sleeps) =>
            outcome' = [op |-> "startup", exc |-> "KeyboardInterrupt"]]_vars

(* C17: when the first probe of a startup() reports ready, startup()
   returns with success at that probe: one probe call, no sleep, no deadline
   test (so a timeout of 0 does not fail it), no time added beyond the
   probe's own. *)
C17_ReadyAtFirstProbe ==
    [][(counts.probes = 0 /\ counts'.probes = 1 /\ lastProbe'.ret = "ready") =>
          /\ pc' = "ready"
          /\ outcome' = [op |-> "startup", exc |-> "none"]
          /\ counts'.sleeps = 0
          /\ elapsed' <= MaxProbeTicks]_vars

C17_Witness ==
    /\ pc = "ready"
    /\ startup_timeout = Some(0)
    /\ counts.probes = 1
    /\ counts.sleeps = 0
    /\ lastProbe.ret = "ready"
    /\ outcome = [op |-> "startup", exc |-> "none"]

(* C19: a startup() that fails after the spawn (at the deadline or by an
   error of the probe) touches neither the process nor the sinks nor their
   files: the process handle is set and both sinks are open when the error
   leaves it.  The shutdown() that follows ends without raising, after it
   the process is not running, both sinks are closed and exactly the empty
   sink files are gone. *)
C19_FailedStartupCleanedByShutdown ==
    [][/\ (pc \in {"probe", "sleep"} /\ pc' = "failed") =>
            /\ outcome'.op = "startup"
            /\ outcome'.exc \notin {"none", "pending"}
            /\ helper_process' = helper_process
            /\ helper_process # "None"
            /\ sinks' = sinks
            /\ \A s \in Sinks : sinks[s] = "open"
            /\ files' = files
       /\ (/\ pc = "failed"
           /\ counts.probes >= 1
           /\ counts.shutdowns = 0
           /\ counts'.shutdowns = 1) =>
            /\ outcome' = [op |-> "shutdown", exc |-> "none"]
            /\ helper_process' # "running"
            /\ \A s \in Sinks : sinks'[s] = "closed"
            /\ \A s \in Sinks : files'[s].exists = (files[s].size > 0)]_vars

C19_Witness ==
    /\ pc = "failed"
    /\ counts.sleeps >= 1
    /\ lastProbe.ret = "not_ready"
    /\ counts.shutdowns = 1
    /\ counts.terminations = 1
    /\ outcome = [op |-> "shutdown", exc |-> "none"]
    /\ helper_process # "running"
    /\ \A s \in Sinks : sinks[s] = "closed"

HoldsLive(r) == virtual_display[r] # 0 /\ displays[virtual_display[r]].alive

(* C11: while a requester that acquired the display has not released it, a
   release by another requester neither stops the display nor clears the
   shared slot, and the holder's check_virtual_display does not fail. *)
C11_OthersReleaseKeepsDisplay ==
    [][\A q \in Requesters : free_virtual_display(q) =>
          \A r \in Requesters \ {q} :
              HoldsLive(r) =>
                  /\ displays'[virtual_display[r]].alive
                  /\ SHARED_VIRTUAL_DISPLAY' = SHARED_VIRTUAL_DISPLAY
                  /\ check_virtual_display(r)' = "none"]_vars

(* C16: check() raises TaurusInternalException if and only if the requester
   holds a display that is not alive; otherwise it returns False; in both
   cases the displays, the requesters' views and the shared slot are left
   as they were. *)
C16_CheckRaisesIffDead ==
    [][\A r \in Requesters : check(r) =>
          /\ (lastCheck'.exc = "TaurusInternalException") =
                (virtual_display[r] # 0 /\ ~displays[virtual_display[r]].alive)
          /\ lastCheck'.exc \in {"none", "TaurusInternalException"}
          /\ (lastCheck'.exc = "none") = (lastCheck'.ret = "False")
          /\ displays' = displays
          /\ virtual_display' = virtual_display
          /\ SHARED_VIRTUAL_DISPLAY' = SHARED_VIRTUAL_DISPLAY]_vars

C16_Witness ==
    /\ lastCheck.exc = "TaurusInternalException"
    /\ virtual_display[lastCheck.by] # 0
    /\ ~displays[virtual_display[lastCheck.by]].alive
    /\ \E r \in Requesters : virtual_display[r] = 0

-----------------------------------------------------------------------------
(* Claims about the InstallChecker *)

FailEvents == {"instantiate_fails", "install_fails"}

PassComplete == raised.exc \in {"ToolError", "NormalShutdown"}

FailedNames == {checked[i] : i \in {j \in 1..Len(checked) : results[j] \in FailEvents}}

SelectedNames ==
    {m \in Range(modules) : (include_set = {} \/ m \in include_set) /\ m \notin exclude_set}

(* C6: a failure other than cancellation while checking one component does
   not end the pass: every selected component is checked exactly once, and
   the aggregated error names exactly the components whose check failed. *)
C6_FailuresAggregated ==
    /\ Len(checked) = Cardinality(Range(checked))
    /\ ("KeyboardInterrupt" \notin Range(results) /\ apc = "raised") => PassComplete
    /\ PassComplete =>
          /\ Range(checked) = SelectedNames
          /\ Range(raised.names) = FailedNames
          /\ Len(raised.names) = Cardinality(FailedNames)

C6_Witness ==
    /\ raised.exc = "ToolError"
    /\ Len(raised.names) = 2
    /\ Len(checked) = 3
    /\ results[1] \in FailEvents

(* C7: prepare() ends only by raising; after the full pass it raises
   NormalShutdown if and only if no checked component failed, and ToolError
   otherwise, and neither before the pass is complete. *)
C7_CleanStopIffNoFailure ==
    /\ raised.exc \in {"none", "KeyboardInterrupt", "ToolError", "NormalShutdown"}
    /\ (apc = "raised") = (raised.exc # "none")
    /\ PassComplete => idx > Len(modules)
    /\ (apc = "raised" /\ "KeyboardInterrupt" \notin Range(results)) =>
          IF FailedNames = {} THEN raised.exc = "NormalShutdown" ELSE raised.exc = "ToolError"

C7_Witness ==
    /\ raised.exc = "NormalShutdown"
    /\ checked = <<>>
    /\ include_set # {}

(* C8: a configured component m is checked if and only if (include is empty
   or m is in include) and m is not in exclude. *)
C8_FilterResolution ==
    \A i \in 1..(idx - 1) :
        (modules[i] \in Range(checked)) <=>
            ((include_set = {} \/ modules[i] \in include_set) /\ modules[i] \notin exclude_set)

C8_Witness ==
    /\ PassComplete
    /\ include_set = {Name("a"), Name("b")}
    /\ exclude_set = {Name("b")}
    /\ checked = <<Name("a")>>

(* C18: with set_virtual_display and free_virtual_display called from two
   threads, at most one display is created and started as long as no
   release has begun, and the release clears the slot only if it still holds
   what the release found in it. *)
C18_AcquireReleaseAtomic ==
    [][/\ lastFree'.by = 0 => Len(displays') <= 1
       /\ \A r \in Requesters :
            (tpc[r] = "clear" /\ tpc'[r] = "idle") =>
                SHARED_VIRTUAL_DISPLAY = seen[r]]_vars

(* The setting lists no name: no element, no key, or a string of nothing
   but whitespace *)
ListsNoName(v) ==
    IF v.type = "str"
    THEN \A i \in 1..Len(v.str) : v.str[i] \in Whitespace
    ELSE v.items = <<>>

(* C20: a filter setting that lists no name is coerced to the empty set,
   and with such an include setting every configured component that is not
   excluded is checked. *)
C20_NoNameGivesEmptySet ==
    apc # "idle" =>
        /\ ListsNoName(include_setting) => include_set = {}
        /\ ListsNoName(exclude_setting) => exclude_set = {}
        /\ (PassComplete /\ ListsNoName(include_setting)) =>
              \A i \in 1..Len(modules) :
                  modules[i] \notin exclude_set => modules[i] \in Range(checked)

====
